---- MODULE Spec2Model ----
(***************************************************************************)
(* Meta::Buffer<T, C> (Structures/Buffer.hpp), the ErrorUnion<void> it     *)
(* returns and the ErrorDef it reports: a fixed-capacity array `data` with *)
(* a live-length cursor `length`.                                          *)
(*                                                                         *)
(* A buffer is a record [data, length]: data is the std::array (a sequence *)
(* whose Len is the capacity, C++ index i is TLA+ index i + 1) and length  *)
(* is the size_t cursor.  size_t is scaled down to the words 0..SizeMax,   *)
(* SizeMax standing for (size_t)-1; every size_t expression of the source  *)
(* is reduced with Wrap.                                                   *)
(*                                                                         *)
(* Every operation is an operator from a buffer and its arguments to the   *)
(* SET of outcomes [b, r, out, val] the call can produce: b the buffer     *)
(* afterwards, r the ErrorUnion<void> returned, out a returned buffer, val *)
(* a returned element.  The set has one element unless the call has        *)
(* undefined behaviour: a read outside an array yields any element value,  *)
(* a write outside the array leaves the array as the in-range writes made  *)
(* it and the adjacent member `length` with any word.                      *)
(***************************************************************************)
EXTENDS Integers, Naturals, Sequences, FiniteSets, TLC

VARIABLES data, length, last, pushed, result, registry

vars == <<data, length, last, pushed, result, registry>>

(* ------------------------------ bounds -------------------------------- *)

\* Capacity C of the buffer under test (template parameter C).
C == 3

\* Capacity N of the buffers passed as `from` / `other` (template parameter N).
N == 2

\* (size_t)-1 of the scaled-down machine word.
SizeMax == 7

\* Capacity of the uint16_t buffers handed to toBytes.
CW == 2

SizeMod == SizeMax + 1

Wrap(x) == x % SizeMod

Words == 0 .. SizeMax

(* ----------------------------- elements ------------------------------- *)

\* Element values of T = uint8_t that the model draws from; 0 is T().
Vals == {0, 1, 255}

\* Element values of T = uint16_t handed to toBytes: 0x0001 and 0x1234.
WideVals == {1, 4660}

(* ------------------------------ errors -------------------------------- *)

\* The value of __COUNTER__ at REGISTER_ERROR("BUFFER_ERROR_OVERRUN"): the
\* counter was used once before, by the registry object of Errors.hpp.
OVERRUN_CODE == 1

BUFFER_ERROR_OVERRUN ==
    [errorCode |-> OVERRUN_CODE, errorName |-> "BUFFER_ERROR_OVERRUN"]

\* ErrorDef of a value-initialised Error (the error of a successful result).
NoErrorDef == [errorCode |-> 0, errorName |-> ""]

\* MAKE_ERROR(errorDef, msg): Error{errorDef, msg, __LINE__}
MAKE_ERROR(errorDef, msg, line) ==
    [errorDef |-> errorDef, msg |-> msg, line |-> line]

\* ErrorUnion<void>(): isError(false), error(Meta::Error())
ErrorUnionVoid == [isError |-> FALSE, error |-> MAKE_ERROR(NoErrorDef, "", 0)]

\* ErrorUnion<void>(Meta::Error error): isError(true), error(error)
ErrorUnionOf(error) == [isError |-> TRUE, error |-> error]

\* operator==(const Error&, const ErrorDef&): the codes are equal
ErrorEq(lhs, rhs) == lhs.errorDef.errorCode = rhs.errorCode

(* --------------------------- error registry --------------------------- *)

\* Translation units of the process that include Errors.hpp, and the
\* REGISTER_ERROR call sites each of them may hold.
MaxTU == 2

MaxSites == 4

\* __COUNTER__ of a translation unit once Errors.hpp is included: line 45
\* (Errors<__COUNTER__>()) has used the value 0.
COUNTER_AFTER_HEADER == 1

\* std::array<ErrorDef, N> Errors<N>::errors: its valid indices.
ErrorsSlots(n) == 0 .. n - 1

\* Errors<N>::registerError(errorName, file): ErrorDef error = {N, ...};
\* errors[N] = error; return errors[N];  -- what one registration does: the
\* definition made, the table it is written to and the index written.
registerError(n, errorName) ==
    [def |-> [errorCode |-> n, errorName |-> errorName], table |-> n, slot |-> n]

\* REGISTER_ERROR(errorName) in translation unit tu:
\* Errors<__COUNTER__>::registerError(...), the counter being the unit's own.
REGISTER_ERROR(reg, tu, errorName) ==
    [counter |-> [reg.counter EXCEPT ![tu] = reg.counter[tu] + 1],
     regs |-> Append(reg.regs,
                     [tu |-> tu] @@ registerError(reg.counter[tu], errorName))]

(* ---------------------------- ErrorUnion<T> --------------------------- *)

\* Values of the payload type T, and the Error occurrences, that the model
\* draws from.
TVals == {7, 9}

ErrVals == {MAKE_ERROR(BUFFER_ERROR_OVERRUN, "Buffer overrun", 113),
            MAKE_ERROR(BUFFER_ERROR_OVERRUN, "Offset out of bounds", 168)}

\* Meta::Error()
NoError == MAKE_ERROR(NoErrorDef, "", 0)

\* An ErrorUnion<T> is [isError, active, value, error]: the flag, and the
\* anonymous union { T value; Meta::Error error; } as the member that is
\* active and its content (the other field holds a placeholder).

\* ErrorUnion(T value): isError(false), value(value)
ErrorUnionOfValue(v) ==
    [isError |-> FALSE, active |-> "value", value |-> v, error |-> NoError]

\* ErrorUnion(Meta::Error error): isError(true), error(error)
ErrorUnionOfError(e) ==
    [isError |-> TRUE, active |-> "error", value |-> 0, error |-> e]

\* A read of the member `value` / `error`: its content, or anything when the
\* member is not the active one.
ReadValue(u) == IF u.active = "value" THEN {u.value} ELSE TVals

ReadError(u) == IF u.active = "error" THEN {u.error} ELSE ErrVals

\* A write of the member `value` / `error`: it becomes the active one.
WriteValue(u, v) == [u EXCEPT !.active = "value", !.value = v, !.error = NoError]

WriteError(u, e) == [u EXCEPT !.active = "error", !.error = e, !.value = 0]

\* bool hasError() const, T getValue() const, Meta::Error getError() const
hasError(u) == u.isError

getValue(u) == ReadValue(u)

getError(u) == ReadError(u)

\* The outcome of a copy or move: the object made or assigned to, and
\* whether a member that is not the active one of its object was touched.
Copied(u, touched) == [u |-> u, touched |-> touched]

\* = default (ErrorUnion.hpp): the flag and the union are copied as they are.
CopyDefaulted(dst, other) == {Copied(other, FALSE)}

\* isError = other.isError; if (isError) error = other.error;
\* else value = other.value;
CopyBranching(dst, other) ==
    LET d == [dst EXCEPT !.isError = other.isError]
    IN  IF other.isError
        THEN {Copied(WriteError(d, e), other.active # "error") : e \in ReadError(other)}
        ELSE {Copied(WriteValue(d, v), other.active # "value") : v \in ReadValue(other)}

\* isError = other.isError; value = other.value; error = other.error;
CopyBoth(dst, other) ==
    LET d == [dst EXCEPT !.isError = other.isError]
    IN  {Copied(WriteError(WriteValue(d, v), e), TRUE) :
            v \in ReadValue(other), e \in ReadError(other)}

\* The three ErrorUnion.hpp of the repository.
Impls == {"ErrorUnion.hpp", "part_001", "part_002"}

\* ErrorUnion(const ErrorUnion& other)
ErrorUnionCopy(impl, dst, other) ==
    IF impl = "ErrorUnion.hpp" THEN CopyDefaulted(dst, other)
    ELSE CopyBranching(dst, other)

\* ErrorUnion& operator=(const ErrorUnion& other)
ErrorUnionAssign(impl, dst, other) ==
    IF impl = "ErrorUnion.hpp" THEN CopyDefaulted(dst, other)
    ELSE IF impl = "part_001" THEN CopyBoth(dst, other)
    ELSE CopyBranching(dst, other)

\* ErrorUnion(ErrorUnion&& other) noexcept; the one of part_001 names both
\* union members in its initialiser list and cannot be instantiated.
ErrorUnionMove(impl, dst, other) ==
    IF impl = "ErrorUnion.hpp" THEN CopyDefaulted(dst, other)
    ELSE IF impl = "part_001" THEN {}
    ELSE CopyBranching(dst, other)

\* ErrorUnion& operator=(ErrorUnion&& other) noexcept
ErrorUnionMoveAssign(impl, dst, other) ==
    IF impl = "ErrorUnion.hpp" THEN CopyDefaulted(dst, other)
    ELSE IF impl = "part_001" THEN CopyBoth(dst, other)
    ELSE CopyBranching(dst, other)

(* ------------------------------ storage ------------------------------- *)

\* Buffer(): length(0), data.fill(T())
EmptyBuffer(cap) == [data |-> [i \in 1 .. cap |-> 0], length |-> 0]

\* The placeholder of "no buffer returned".
NoBuffer == [data |-> <<>>, length |-> 0]

Capacity(b) == Len(b.data)

\* The live prefix data[0 .. length) of a buffer whose length is in range.
Live(b) == SubSeq(b.data, 1, b.length)

Outcome(b, r, out, val) == [b |-> b, r |-> r, out |-> out, val |-> val]

\* arr[i]: the element, or any value when i is outside the array.
Load(arr, i) == IF i < Len(arr) THEN {arr[i + 1]} ELSE Vals

\* arr[i] = v: a write outside the array does not change the array.
Store(arr, i, v) == IF i < Len(arr) THEN [arr EXCEPT ![i + 1] = v] ELSE arr

\* The forward loop *d++ = *first++ from src + first up to src + lst into
\* d + at; self: src and d are the same array.
RECURSIVE copy_loop(_, _, _, _, _, _)
copy_loop(src, first, lst, d, at, self) ==
    IF first >= lst THEN {d}
    ELSE UNION { copy_loop(src, first + 1, lst, Store(d, at, v), at + 1, self) :
                 v \in Load(IF self THEN d ELSE src, first) }

\* std::copy(src + first, src + lst, d + at). With d + at inside
\* [src + first, src + lst) the call has undefined behaviour: the library
\* runs the forward loop, or, for trivially copyable T, memmove, which
\* copies as if from the array as it was before the call.
std_copy(src, first, lst, d, at, self) ==
    copy_loop(src, first, lst, d, at, self)
        \cup (IF self /\ first < at /\ at < lst
               THEN copy_loop(d, first, lst, d, at, FALSE) ELSE {})

\* count elements written from index at on reach outside the array d.
WritesOutside(d, at, count) == count > 0 /\ at + count > Len(d)

\* `length` after the call: the computed word, or any word when a write
\* outside `data` may have hit it.
LengthAfter(outside, computed) == IF outside THEN Words ELSE {computed}

(* ----------------------------- operations ----------------------------- *)

\* void clear()
clear(b) == {Outcome([b EXCEPT !.length = 0], ErrorUnionVoid, NoBuffer, 0)}

\* Buffer& operator=(const Buffer&), Buffer& operator=(Buffer&&)
assign(b, other) ==
    {Outcome([data |-> other.data, length |-> other.length],
             ErrorUnionVoid, NoBuffer, 0)}

\* push_back with the capacity test off by one: if (length > C).
push_back_gt(b, t) ==
    IF b.length > Capacity(b)
    THEN {Outcome(b, ErrorUnionOf(MAKE_ERROR(BUFFER_ERROR_OVERRUN, "Buffer overrun", 113)),
                  NoBuffer, 0)}
    ELSE {Outcome([data |-> Store(b.data, b.length, t), length |-> l],
                  ErrorUnionVoid, NoBuffer, 0) :
            l \in LengthAfter(WritesOutside(b.data, b.length, 1), Wrap(b.length + 1))}

\* ErrorUnion<void> push_back(T t)
push_back(b, t) ==
    IF b.length >= Capacity(b)
    THEN {Outcome(b, ErrorUnionOf(MAKE_ERROR(BUFFER_ERROR_OVERRUN, "Buffer overrun", 113)),
                  NoBuffer, 0)}
    ELSE {Outcome([data |-> Store(b.data, b.length, t), length |-> Wrap(b.length + 1)],
                  ErrorUnionVoid, NoBuffer, 0)}

\* ErrorUnion<void> append(const T* arr, size_t len)
append(b, arr, len) ==
    IF Wrap(b.length + len) > Capacity(b)
    THEN {Outcome(b, ErrorUnionOf(MAKE_ERROR(BUFFER_ERROR_OVERRUN, "Buffer overrun", 127)),
                  NoBuffer, 0)}
    ELSE {Outcome([data |-> d, length |-> l], ErrorUnionVoid, NoBuffer, 0) :
            d \in std_copy(arr, 0, len, b.data, b.length, FALSE),
            l \in LengthAfter(WritesOutside(b.data, b.length, len), Wrap(b.length + len))}

\* T pop_back(): return data[length--]
pop_back(b) ==
    {Outcome([b EXCEPT !.length = Wrap(b.length - 1)], ErrorUnionVoid, NoBuffer, v) :
        v \in Load(b.data, b.length)}

\* The count a call copies: (size_t)-1 stands for from.size() - offset.
ResolveCount(from, offset, count) ==
    IF count = SizeMax THEN Wrap(from.length - offset) ELSE count

\* ErrorUnion<void> copy(const Buffer<T, N>& from, size_t offset, size_t count)
copy(b, from, offset, count) ==
    IF offset > from.length
    THEN {Outcome(b, ErrorUnionOf(MAKE_ERROR(BUFFER_ERROR_OVERRUN, "Offset out of bounds", 168)),
                  NoBuffer, 0)}
    ELSE LET cnt == ResolveCount(from, offset, count)
         IN  {Outcome([data |-> d, length |-> l], ErrorUnionVoid, NoBuffer, 0) :
                d \in std_copy(from.data, offset, offset + cnt, b.data, b.length, FALSE),
                l \in LengthAfter(WritesOutside(b.data, b.length, cnt), Wrap(b.length + cnt))}

\* The length update of copyOver: if (over + count > length) length += count - offset
CopyOverLength(len, over, offset, cnt) ==
    IF Wrap(over + cnt) > len THEN Wrap(len + cnt - offset) ELSE len

\* ErrorUnion<void> copyOver(size_t over, Buffer<T, N>& from, size_t offset, size_t count)
\* self: from is *this.
copyOver(b, over, from, offset, count, self) ==
    IF Wrap(over + count) > Capacity(b)
    THEN {Outcome(b, ErrorUnionOf(MAKE_ERROR(BUFFER_ERROR_OVERRUN, "Buffer overrun", 186)),
                  NoBuffer, 0)}
    ELSE LET cnt == ResolveCount(from, offset, count)
         IN  {Outcome([data |-> d, length |-> l], ErrorUnionVoid, NoBuffer, 0) :
                d \in std_copy(from.data, offset, offset + cnt, b.data, over, self),
                l \in LengthAfter(WritesOutside(b.data, over, cnt),
                                  CopyOverLength(b.length, over, offset, cnt))}

\* T& operator[](size_t idx): return data[idx]
subscript(b, idx) ==
    {Outcome(b, ErrorUnionVoid, NoBuffer, v) : v \in Load(b.data, idx)}

\* for (const T* p = begin(); p != end(); ++p): the elements visited from
\* index i on, begin() being data.begin() and end() data.begin() + length.
RECURSIVE iterateLoop(_, _, _)
iterateLoop(b, i, visited) ==
    IF i >= b.length THEN {visited}
    ELSE UNION { iterateLoop(b, i + 1, Append(visited, v)) : v \in Load(b.data, i) }

\* Forward iteration begin() .. end(); out holds the elements visited.
iterate(b) ==
    {Outcome(b, ErrorUnionVoid, [data |-> visited, length |-> Len(visited)], 0) :
        visited \in iterateLoop(b, 0, <<>>)}

\* getBytes emitting the most significant byte first.
getBytes_be(t, w) == [i \in 1 .. w |-> (t \div (2 ^ (8 * (w - i)))) % 256]

\* getBytes(const T& t): bytes[i] = (t >> (i * 8)) & 0xFF, i < sizeof(T)
getBytes(t, w) == [i \in 1 .. w |-> (t \div (2 ^ (8 * (i - 1)))) % 256]

\* The loop of toBytes from element i on: bytes.append(getBytes(data[i]))
RECURSIVE toBytesLoop(_, _, _, _)
toBytesLoop(b, w, i, bytes) ==
    IF i >= b.length THEN {bytes}
    ELSE UNION { toBytesLoop(b, w, i + 1, o.b) :
                 o \in UNION { append(bytes, getBytes(v, w), w) : v \in Load(b.data, i) } }

\* Buffer<uint8_t, C * sizeof(T)> toBytes() const, w = sizeof(T)
toBytes(b, w) ==
    {Outcome(b, ErrorUnionVoid, bytes, 0) :
        bytes \in toBytesLoop(b, w, 0, EmptyBuffer(Capacity(b) * w))}

\* The loop of subBuffer from element i on: sub.push_back(data[i])
RECURSIVE subBufferLoop(_, _, _, _)
subBufferLoop(b, i, end, sub) ==
    IF i >= end THEN {sub}
    ELSE UNION { subBufferLoop(b, i + 1, end, o.b) :
                 o \in UNION { push_back(sub, v) : v \in Load(b.data, i) } }

\* template<size_t start, size_t end> Buffer<uint8_t, end - start> subBuffer() const
subBuffer(b, start, end) ==
    {Outcome(b, ErrorUnionVoid, sub, 0) :
        sub \in subBufferLoop(b, start, end, EmptyBuffer(end - start))}

\* take shifting the rest from n + 1 instead of n.
take_shift1(b, cap, n) ==
    {Outcome([s.b EXCEPT !.length = Wrap(s.b.length - n)], ErrorUnionVoid, t.b, 0) :
        t \in copy(EmptyBuffer(cap), b, 0, n),
        s \in copyOver(b, 0, b, n + 1, Wrap(b.length - n), TRUE)}

\* template<size_t N> Buffer<uint8_t, N> take(size_t n)
take(b, cap, n) ==
    {Outcome([s.b EXCEPT !.length = Wrap(s.b.length - n)], ErrorUnionVoid, t.b, 0) :
        t \in copy(EmptyBuffer(cap), b, 0, n),
        s \in copyOver(b, 0, b, n, Wrap(b.length - n), TRUE)}

(* ------------------------------- inputs ------------------------------- *)

\* Array contents the callers pass: two patterns of distinct neighbours.
ValSeq == <<0, 1, 255>>

Pattern(cap, k) == [i \in 1 .. cap |-> ValSeq[((i + k) % 3) + 1]]

Patterns(cap) == {Pattern(cap, k) : k \in {0, 1}}

\* Buffer<T, cap> values with length <= cap, as a caller holds them.
Buffers(cap) == [data : Patterns(cap), length : 0 .. cap]

\* The buffers passed as `from`.
Sources == [data : {Pattern(N, 0)}, length : 0 .. N]

\* Arguments of copy and copyOver; SizeMax is the omitted count.
Offsets == 0 .. N + 1

Counts == (0 .. N) \cup {SizeMax}

\* (arr, len) of append: an array with its size, or with a len past its end.
AppendArgs ==
    {[data |-> arr, length |-> len] :
        arr \in Patterns(N), len \in (0 .. N) \cup {SizeMax - 1, SizeMax}}

\* Buffer<uint16_t, cap> values handed to toBytes, cap <= CW, stale slots
\* holding any value.
WideBuffers ==
    UNION {[data : [1 .. cap -> WideVals], length : 0 .. cap] : cap \in 1 .. CW}

(* -------------------------------- state ------------------------------- *)

\* The buffer under test, *this.
Buf == [data |-> data, length |-> length]

\* Buffer(), or Buffer(const std::array<T, n>&) with n <= C: length(n), the
\* first n slots copied, the others not initialised.
Constructed ==
    {EmptyBuffer(C)} \cup [data : [1 .. C -> Vals], length : 1 .. C]

\* `last` when no result is held.
NoCall == [op |-> "none", pre |-> NoBuffer, a |-> <<>>, src |-> NoBuffer,
           self |-> NoBuffer, r |-> ErrorUnionVoid, out |-> NoBuffer, val |-> 0]

\* `result` when no ErrorUnion<T> is under test, `registry` when no
\* registration is.
NoResult ==
    [impl |-> "none", op |-> "none", src |-> ErrorUnionOfValue(0),
     dst |-> ErrorUnionOfValue(0), touched |-> FALSE]

NoRegistry == [counter |-> <<>>, regs |-> <<>>]

Init ==
    /\ \E b \in Constructed :
          /\ data = b.data
          /\ length = b.length
          /\ pushed = [ok |-> b = EmptyBuffer(C), vals |-> <<>>, failed |-> FALSE]
    /\ last = NoCall
    /\ result = NoResult
    /\ registry = NoRegistry

\* The caller holds no result: it is done with the call before and may make
\* the next one.
Idle == last = NoCall

\* What `last` records of a call: its name and arguments a, the buffer
\* passed to it (src), the buffer *this before it (pre), the object it was
\* called on after it (self) and what it returned (r, out, val).
Record(op, a, src, o) ==
    [op |-> op, pre |-> Buf, a |-> a, src |-> src,
     self |-> o.b, r |-> o.r, out |-> o.out, val |-> o.val]

\* One call on *this: the buffer becomes o.b.
Call(op, a, src, o) ==
    /\ data' = o.b.data
    /\ length' = o.b.length
    /\ last' = Record(op, a, src, o)
    /\ UNCHANGED <<result, registry>>

\* `pushed`: the arguments of the push_back calls made so far, while the
\* buffer was constructed empty and nothing but at most C + 1 push_back
\* calls were made on it; failed: one of the first C of them returned an
\* error.
NotOnlyPushes == pushed' = [ok |-> FALSE, vals |-> <<>>, failed |-> FALSE]

PushBack ==
    /\ Idle
    /\ \E t \in Vals : \E o \in push_back(Buf, t) :
           /\ Call("push_back", <<t>>, NoBuffer, o)
           /\ pushed' = IF pushed.ok /\ Len(pushed.vals) <= C
                        THEN [ok |-> TRUE, vals |-> Append(pushed.vals, t),
                              failed |-> \/ pushed.failed
                                         \/ o.r.isError /\ Len(pushed.vals) < C]
                        ELSE [ok |-> FALSE, vals |-> <<>>, failed |-> FALSE]

AppendArr ==
    /\ Idle
    /\ \E x \in AppendArgs : \E o \in append(Buf, x.data, x.length) :
           Call("append", <<x.length>>, x, o) /\ NotOnlyPushes

\* append(const Buffer<T, N>& other): append(other.cArr(), other.size())
AppendBuffer ==
    /\ Idle
    /\ \E other \in Buffers(N) : \E o \in append(Buf, other.data, other.length) :
           Call("append", <<other.length>>, other, o) /\ NotOnlyPushes

PopBack ==
    /\ Idle
    /\ \E o \in pop_back(Buf) : Call("pop_back", <<>>, NoBuffer, o) /\ NotOnlyPushes

Copy ==
    /\ Idle
    /\ \E from \in Sources, offset \in Offsets, count \in Counts :
           \E o \in copy(Buf, from, offset, count) :
               Call("copy", <<offset, count>>, from, o) /\ NotOnlyPushes

CopyOver ==
    /\ Idle
    /\ \E over \in 0 .. C, from \in Sources, offset \in 0 .. 1, count \in Counts :
           \E o \in copyOver(Buf, over, from, offset, count, FALSE) :
               Call("copyOver", <<over, offset, count>>, from, o) /\ NotOnlyPushes

\* b.copyOver(over, b, offset, count): source and destination are *this.
CopyOverSelf ==
    /\ Idle
    /\ \E over \in 0 .. N, offset \in 0 .. N, count \in 1 .. N :
           \E o \in copyOver(Buf, over, Buf, offset, count, TRUE) :
               Call("copyOverSelf", <<over, offset, count>>, Buf, o) /\ NotOnlyPushes

Take ==
    /\ Idle
    /\ \E cap \in {N, C}, n \in 0 .. C + 1 :
           \E o \in take(Buf, cap, n) :
               Call("take", <<cap, n>>, NoBuffer, o) /\ NotOnlyPushes

Clear ==
    /\ Idle
    /\ \E o \in clear(Buf) : Call("clear", <<>>, NoBuffer, o) /\ NotOnlyPushes

Assign ==
    /\ Idle
    /\ \E other \in Buffers(C) : \E o \in assign(Buf, other) :
           Call("assign", <<>>, other, o) /\ NotOnlyPushes

\* toBytes() of *this, T = uint8_t
ToBytes ==
    /\ Idle
    /\ \E o \in toBytes(Buf, 1) : Call("toBytes", <<1>>, Buf, o) /\ NotOnlyPushes

\* toBytes() of a Buffer<uint16_t, cap>; *this is not involved.
ToBytes16 ==
    /\ Idle
    /\ \E wide \in WideBuffers : \E o \in toBytes(wide, 2) :
           /\ last' = Record("toBytes", <<2>>, wide, o)
           /\ UNCHANGED <<data, length, result, registry>>
           /\ NotOnlyPushes

SubBuffer ==
    /\ Idle
    /\ \E start \in 0 .. 1 : \E end \in {start, C} :
           \E o \in subBuffer(Buf, start, end) :
               Call("subBuffer", <<start, end>>, NoBuffer, o) /\ NotOnlyPushes

Subscript ==
    /\ Idle
    /\ \E idx \in 0 .. C : \E o \in subscript(Buf, idx) :
           Call("operator[]", <<idx>>, NoBuffer, o) /\ NotOnlyPushes

Iterate ==
    /\ Idle
    /\ \E o \in iterate(Buf) : Call("iterate", <<>>, NoBuffer, o) /\ NotOnlyPushes

\* The caller drops the returned ErrorUnion / buffer / element; the buffer
\* itself is not touched.
Discard ==
    /\ ~Idle
    /\ last' = NoCall
    /\ UNCHANGED <<data, length, pushed, result, registry>>

Next ==
    \/ PushBack
    \/ AppendArr
    \/ AppendBuffer
    \/ PopBack
    \/ Copy
    \/ CopyOver
    \/ CopyOverSelf
    \/ Take
    \/ Clear
    \/ Assign
    \/ ToBytes
    \/ ToBytes16
    \/ SubBuffer
    \/ Subscript
    \/ Iterate
    \/ Discard

Spec == Init /\ [][Next]_vars

(* ----------------------- ErrorUnion<T> under test --------------------- *)

\* The ErrorUnion<T> objects a caller holds: made from a value or an Error.
Made == {ErrorUnionOfValue(v) : v \in TVals} \cup {ErrorUnionOfError(e) : e \in ErrVals}

\* result.src is the object copied or moved from, result.dst the object
\* made or assigned to, result.op the operation that made dst.
InitUnion ==
    /\ data = EmptyBuffer(C).data
    /\ length = 0
    /\ pushed = [ok |-> FALSE, vals |-> <<>>, failed |-> FALSE]
    /\ last = NoCall
    /\ registry = NoRegistry
    /\ \E impl \in Impls, u \in Made, w \in Made :
          result = [impl |-> impl, op |-> "ErrorUnion", src |-> u, dst |-> w,
                    touched |-> FALSE]

UnionStep(op, outcomes) ==
    /\ \E c \in outcomes :
          result' = [result EXCEPT !.op = op, !.dst = c.u, !.touched = c.touched]
    /\ UNCHANGED <<data, length, last, pushed, registry>>

\* ErrorUnion<T> dst(src);
CopyConstruct ==
    UnionStep("copy", ErrorUnionCopy(result.impl, ErrorUnionOfValue(0), result.src))

\* dst = src;
CopyAssign ==
    UnionStep("assign", ErrorUnionAssign(result.impl, result.dst, result.src))

\* ErrorUnion<T> dst(std::move(src));
MoveConstruct ==
    UnionStep("move", ErrorUnionMove(result.impl, ErrorUnionOfValue(0), result.src))

\* dst = std::move(src);
MoveAssign ==
    UnionStep("moveAssign", ErrorUnionMoveAssign(result.impl, result.dst, result.src))

\* The caller goes on with the object it got: dst becomes the next source,
\* and a new object is made to assign to.
Reuse ==
    /\ result.op # "ErrorUnion"
    /\ \E w \in Made :
          result' = [result EXCEPT !.op = "ErrorUnion", !.src = result.dst,
                                   !.dst = w, !.touched = FALSE]
    /\ UNCHANGED <<data, length, last, pushed, registry>>

NextUnion ==
    \/ CopyConstruct
    \/ CopyAssign
    \/ MoveConstruct
    \/ MoveAssign
    \/ Reuse

SpecUnion == InitUnion /\ [][NextUnion]_vars

(* ------------------------ registrations under test -------------------- *)

\* Static initialisation: every translation unit has included Errors.hpp,
\* nothing is registered yet.
InitErrors ==
    /\ data = EmptyBuffer(C).data
    /\ length = 0
    /\ pushed = [ok |-> FALSE, vals |-> <<>>, failed |-> FALSE]
    /\ last = NoCall
    /\ result = NoResult
    /\ registry = [counter |-> [tu \in 1 .. MaxTU |-> COUNTER_AFTER_HEADER],
                   regs |-> <<>>]

\* The next REGISTER_ERROR call site of translation unit tu is initialised.
Register ==
    /\ \E tu \in 1 .. MaxTU :
          /\ registry.counter[tu] < COUNTER_AFTER_HEADER + MaxSites
          /\ registry' = REGISTER_ERROR(registry, tu, "BUFFER_ERROR_OVERRUN")
    /\ UNCHANGED <<data, length, last, pushed, result>>

NextErrors == Register

SpecErrors == InitErrors /\ [][NextErrors]_vars

(* ------------------------------- claims ------------------------------- *)

Max(a, b) == IF a > b THEN a ELSE b

\* The buffer *this was in range before the recorded call.
PreInRange == last.pre.length <= Capacity(last.pre)

\* C1: the length of the buffer under test, and of every buffer a call
\* returned (take, toBytes, subBuffer), is at most its capacity.
C1_LengthWithinCapacity ==
    /\ length <= C
    /\ last.out.length <= Capacity(last.out)

\* C2: on a buffer constructed empty, k <= C push_back calls all succeed,
\* size() is k and the live elements are the pushed values in push order;
\* the push_back made at size() = C returns an error that equals
\* BUFFER_ERROR_OVERRUN and changes neither size() nor any stored element.
C2_PushBack ==
    /\ pushed.ok /\ Len(pushed.vals) <= C =>
          /\ ~pushed.failed
          /\ length = Len(pushed.vals)
          /\ Live(Buf) = pushed.vals
    /\ pushed.ok /\ Len(pushed.vals) = C + 1 =>
          /\ ~pushed.failed
          /\ length = C
          /\ Live(Buf) = SubSeq(pushed.vals, 1, C)
    /\ last.op = "push_back" /\ last.pre.length = Capacity(last.pre) =>
          /\ last.r.isError
          /\ ErrorEq(last.r.error, BUFFER_ERROR_OVERRUN)
          /\ Buf = last.pre

\* C2 witness: C push_back calls of values that differ filled the empty
\* buffer and one more was made.
C2_Witness ==
    /\ pushed.ok
    /\ Len(pushed.vals) = C + 1
    /\ pushed.vals[1] # pushed.vals[2]
    /\ last.op = "push_back"
    /\ last.r.isError

\* C3: append(arr, len) on a buffer in range returns an error, equal to
\* BUFFER_ERROR_OVERRUN, exactly when length + len > C (in unbounded
\* arithmetic); a failed call changes nothing, a successful one keeps the
\* live prefix, puts the len source elements behind it and adds len to
\* size().
C3_AppendAllOrNothing ==
    last.op = "append" /\ PreInRange =>
        LET len == last.a[1]
            pre == last.pre
        IN  /\ last.r.isError <=> pre.length + len > Capacity(pre)
            /\ last.r.isError =>
                  ErrorEq(last.r.error, BUFFER_ERROR_OVERRUN) /\ Buf = pre
            /\ ~last.r.isError =>
                  /\ length = pre.length + len
                  /\ Live(Buf) = Live(pre) \o SubSeq(last.src.data, 1, len)

\* C4: take(n) with n <= size() and n within the capacity of the returned
\* buffer returns the first n live elements in order and leaves the others
\* in order, size() reduced by n.
C4_TakeSplits ==
    last.op = "take" /\ PreInRange /\ last.a[2] <= last.pre.length
                     /\ last.a[2] <= last.a[1] =>
        LET n == last.a[2]
            pre == last.pre
        IN  /\ last.out.length = n
            /\ Live(last.out) = SubSeq(pre.data, 1, n)
            /\ length = pre.length - n
            /\ Live(Buf) = SubSeq(pre.data, n + 1, pre.length)

\* C4 witness: a take of some but not all elements, the first taken and
\* the first kept element differing.
C4_Witness ==
    /\ last.op = "take"
    /\ PreInRange
    /\ 0 < last.a[2]
    /\ last.a[2] < last.pre.length
    /\ last.a[2] <= last.a[1]
    /\ last.pre.data[1] # last.pre.data[last.a[2] + 1]
    /\ length = last.pre.length - last.a[2]

\* C5: copy(from, offset, count) with offset > from.size() returns an error
\* that does not equal BUFFER_ERROR_OVERRUN and leaves the buffer unchanged.
C5_CopyOffsetOutOfBounds ==
    last.op = "copy" /\ PreInRange /\ last.a[1] > last.src.length =>
        /\ last.r.isError
        /\ ~ErrorEq(last.r.error, BUFFER_ERROR_OVERRUN)
        /\ Buf = last.pre

\* C6: copy(from, offset, count) with offset <= from.size() and
\* length + count > C (count resolved when omitted) returns an error and
\* leaves the buffer unchanged.
C6_CopyCapacityChecked ==
    last.op = "copy" /\ PreInRange /\ last.a[1] <= last.src.length
        /\ last.pre.length + ResolveCount(last.src, last.a[1], last.a[2]) > C =>
        /\ last.r.isError
        /\ Buf = last.pre

\* C7: pop_back on a buffer of length L > 0 returns the element at index
\* L - 1 and leaves size() = L - 1.  Stated for L < C, where the slot the
\* code reads is inside the array.
C7_PopBackReturnsLast ==
    last.op = "pop_back" /\ last.pre.length > 0
                         /\ last.pre.length < Capacity(last.pre) =>
        /\ last.val = last.pre.data[last.pre.length]
        /\ length = last.pre.length - 1

\* C8: pop_back on an empty buffer reports an error and leaves length 0.
C8_PopBackEmpty ==
    last.op = "pop_back" /\ last.pre.length = 0 =>
        /\ last.r.isError
        /\ length = 0

\* C9: toBytes() of a buffer of w-byte elements with L live elements
\* returns L * w bytes, byte k * w + j being (e[k] >> 8j) mod 256, whatever
\* the capacity and the slots at index >= L hold, and leaves the buffer it
\* is called on as it was.
C9_ToBytesLittleEndian ==
    last.op = "toBytes" /\ last.src.length <= Capacity(last.src) =>
        LET w == last.a[1]
            L == last.src.length
        IN  /\ last.out.length = L * w
            /\ Capacity(last.out) = Capacity(last.src) * w
            /\ \A k \in 0 .. L - 1 : \A j \in 0 .. w - 1 :
                  last.out.data[k * w + j + 1] =
                      (last.src.data[k + 1] \div (256 ^ j)) % 256
            /\ last.self = last.src

\* C9 witness: toBytes of the 16-bit buffer [0x1234, 0x0001] returned
\* [0x34, 0x12, 0x01, 0x00].
C9_Witness ==
    /\ last.op = "toBytes"
    /\ last.a = <<2>>
    /\ Live(last.src) = <<4660, 1>>
    /\ Live(last.out) = <<52, 18, 1, 0>>

\* C10: after a successful copyOver(destOffset, from, offset, count),
\* length is max(old length, destOffset + count).  Stated for the calls
\* that copy count > 0 live elements of `from` to a place that starts
\* inside the live prefix and ends inside the capacity.
C10_CopyOverLength ==
    last.op = "copyOver" /\ PreInRange /\ ~last.r.isError
        /\ last.a[3] # SizeMax /\ last.a[3] > 0
        /\ last.a[2] + last.a[3] <= last.src.length
        /\ last.a[1] <= last.pre.length
        /\ last.a[1] + last.a[3] <= C =>
        length = Max(last.pre.length, last.a[1] + last.a[3])

\* C11: copyOver(destOffset, from, offset, count) on a buffer in range, with
\* offset <= from.size(), returns an error, equal to BUFFER_ERROR_OVERRUN,
\* exactly when destOffset + count > C, count being from.size() - offset
\* when it is omitted; a failing call changes nothing.
C11_CopyOverOverrunCheck ==
    last.op = "copyOver" /\ PreInRange /\ last.a[2] <= last.src.length =>
        LET cnt == ResolveCount(last.src, last.a[2], last.a[3])
        IN  /\ last.r.isError <=> last.a[1] + cnt > C
            /\ last.r.isError =>
                  ErrorEq(last.r.error, BUFFER_ERROR_OVERRUN) /\ Buf = last.pre

\* C12: on a buffer in range, forward iteration visits exactly the live
\* elements in order, and operator[] with an index >= length fails instead
\* of returning a value.
C12_ReadsWithinLive ==
    /\ last.op = "iterate" /\ PreInRange => last.out.data = Live(last.pre)
    /\ last.op = "operator[]" /\ PreInRange /\ last.a[1] >= last.pre.length =>
          last.r.isError

\* The object copied or moved from was made from a value or an Error, or
\* is a faithful copy of such an object.
SrcMade == result.src \in Made

\* C13: an ErrorUnion<T> made from a value has hasError() false and
\* getValue() that value, one made from an Error has hasError() true and
\* getError() that error; a copy or move, constructed or assigned, has the
\* discriminant and the active member of its source, and touches no member
\* that is not the active one.
C13_ActiveMemberOnly ==
    /\ \A v \in TVals :
          ~hasError(ErrorUnionOfValue(v)) /\ getValue(ErrorUnionOfValue(v)) = {v}
    /\ \A e \in ErrVals :
          hasError(ErrorUnionOfError(e)) /\ getError(ErrorUnionOfError(e)) = {e}
    /\ result.op \in {"copy", "assign", "move", "moveAssign"} /\ SrcMade =>
          /\ hasError(result.dst) = hasError(result.src)
          /\ result.dst.active = result.src.active
          /\ getValue(result.dst) = getValue(result.src)
          /\ getError(result.dst) = getError(result.src)
          /\ ~result.touched

\* C14: every registration has a code greater than the code of every
\* earlier one, is stored in a slot its table has, and an Error made of a
\* registered definition equals a registered definition exactly when their
\* codes are equal.
C14_RegistryUnique ==
    LET regs == registry.regs
    IN  /\ \A i \in 1 .. Len(regs) : \A j \in 1 .. Len(regs) :
              i < j => regs[j].def.errorCode > regs[i].def.errorCode
        /\ \A i \in 1 .. Len(regs) : regs[i].slot \in ErrorsSlots(regs[i].table)
        /\ \A i \in 1 .. Len(regs) : \A j \in 1 .. Len(regs) :
              ErrorEq(MAKE_ERROR(regs[i].def, "", 0), regs[j].def)
                  <=> regs[i].def.errorCode = regs[j].def.errorCode

\* C15: copyOver(destOffset, self, offset, count) with both ranges inside
\* the contents of the buffer leaves d[offset .. offset + count), d the
\* contents before the call, in the slots [destOffset, destOffset + count)
\* and changes no other slot, whether the destination lies left or right of
\* the source.
C15_CopyOverSelfOverlapSafe ==
    last.op = "copyOverSelf" /\ PreInRange /\ ~last.r.isError
        /\ last.a[1] + last.a[3] <= last.pre.length
        /\ last.a[2] + last.a[3] <= last.pre.length =>
        \A i \in 0 .. C - 1 :
            data[i + 1] =
                IF last.a[1] <= i /\ i < last.a[1] + last.a[3]
                THEN last.pre.data[last.a[2] + (i - last.a[1]) + 1]
                ELSE last.pre.data[i + 1]

====
